---------------------------- MODULE Spec2Model ----------------------------
(***************************************************************************)
(* Distributed GCN training (HPCRL/GNN-RDM).                               *)
(*                                                                         *)
(*   src/gcn_distr.py          1D path: norm, blockRow (ring multiplier)   *)
(*   src/examples/gcn_2d.py    2D path: get_proc_groups, scale_elements,   *)
(*                             split_coo, twod_partition, main             *)
(*                                                                         *)
(* Six specifications share the module:                                    *)
(*   RingSpec   the `size` processes of blockRow exchanging H-blocks       *)
(*   TrainSpec  the `size` processes of train: two GCNFunc.forward calls   *)
(*   SplitSpec  split_coo applied to bounded edge lists                    *)
(*   MainSpec   one process of main: get_proc_groups, twod_partition,      *)
(*              the label and train-mask slices                            *)
(*   GroupSpec  every process of the job in get_proc_groups                *)
(*   NormSpec   norm and scale_elements applied to bounded edge lists      *)
(* Each leaves the variables of the others at their idle value.            *)
(***************************************************************************)
EXTENDS Integers, Sequences, FiniteSets, TLC

(***************************************************************************)
(* Bounds of the model.                                                    *)
(***************************************************************************)
MaxRing == 4

MaxCols == 6

MaxSize == 6

MaxNodes == 3

MaxEdges == 2

VARIABLES
    \* ---- blockRow, src/gcn_distr.py:38-69 ----
    size,          \* number of processes of the ring
    adj_cols,      \* adj_matrix.size(1)
    pc,            \* pc[rank]: position of the process in blockRow
    i,             \* i[rank]: the loop variable of line 46
    inputs,        \* inputs[rank]: the tensor object the name `inputs` is bound to
    tensors,       \* tensors[rank][object]: content of the two tensor objects
    z_loc,         \* z_loc[rank]: the products accumulated so far, in order
    sent,          \* sent[rank]: completed dist.send calls
    received,      \* received[rank]: completed dist.recv calls
    \* ---- train and GCNFunc.forward, src/gcn_distr.py:84-94, 104-106 ----
    layer,         \* layer[rank]: the GCNFunc.apply call of train the process is in
    matched,       \* the <<send, recv>> pairs of call sites that have met so far
    \* ---- the process grid, cagnet.nn.functional ----
    grid_policy,   \* how proc_row_size / proc_col_size factor the process count
    \* ---- split_coo, src/examples/gcn_2d.py:152-167 ----
    split_call,    \* the arguments of the call
    split_ret,     \* what the call returned, once it has
    \* ---- one process of main, src/examples/gcn_2d.py:272-348 ----
    main_proc,     \* rank, size, the dataset (node count, edge_index), args.normalize
    main_pc,       \* the call of main the process is about to make
    main_err,      \* the exception that ended the process, if one did
    main_groups,   \* row_groups, col_groups, transpose_group of line 314
    main_loc,      \* features_loc, g_loc of line 321
    main_slices,   \* rank_train_mask, labels_rank of lines 347-348
    \* ---- all processes of the job in get_proc_groups, gcn_2d.py:66-110 ----
    job_size,      \* the number of processes of the job
    group_pc,      \* group_pc[rank]: position of the process in get_proc_groups
    calls_made,    \* calls_made[rank]: dist.new_group calls the process has completed
    \* ---- the normalizers: norm (gcn_distr.py:21-36), scale_elements ----
    norm_call,     \* the edge list and node count
    norm_ret,      \* what norm returned, once it has
    scale_ret      \* what scale_elements returned, once it has

ringVars == <<size, adj_cols, pc, i, inputs, tensors, z_loc, sent, received, layer, matched>>

splitVars == <<split_call, split_ret>>

mainVars == <<main_proc, main_pc, main_err, main_groups, main_loc, main_slices, job_size, group_pc, calls_made>>

normVars == <<norm_call, norm_ret, scale_ret>>

vars == <<ringVars, grid_policy, splitVars, mainVars, normVars>>

\* the value of the variables a specification does not use
Idle == "idle"

RingIdle ==
    /\ size = Idle /\ adj_cols = Idle /\ pc = Idle /\ i = Idle /\ inputs = Idle
    /\ tensors = Idle /\ z_loc = Idle /\ sent = Idle /\ received = Idle
    /\ layer = Idle /\ matched = Idle

SplitIdle == split_call = Idle /\ split_ret = Idle

MainIdle ==
    /\ main_proc = Idle /\ main_pc = Idle /\ main_err = Idle
    /\ main_groups = Idle /\ main_loc = Idle /\ main_slices = Idle
    /\ job_size = Idle /\ group_pc = Idle /\ calls_made = Idle

NormIdle == norm_call = Idle /\ norm_ret = Idle /\ scale_ret = Idle

(***************************************************************************)
(* Python helpers.                                                         *)
(***************************************************************************)
Min(a, b) == IF a < b THEN a ELSE b

\* ceil(n / k) for k > 0
CeilDiv(n, k) == (n + k - 1) \div k

\* range(start, stop, step) for step > 0, as a list
range(start, stop, step) ==
    [k \in 1 .. (IF stop > start THEN CeilDiv(stop - start, step) ELSE 0) |->
        start + (k - 1) * step]

\* lst[:n]
Take(lst, n) == SubSeq(lst, 1, Min(n, Len(lst)))

\* the entries of a list as a set
Elems(lst) == { lst[k] : k \in 1 .. Len(lst) }

\* torch.split(t, split_size, dim) on a dimension of length n: the index ranges
\* of the chunks, each of split_size entries but the last, which holds the rest.
\* Every chunk is the set of the indices it holds.
torch_split(n, split_size) ==
    [c \in 1 .. CeilDiv(n, split_size) |->
        { x \in 0 .. n - 1 : (c - 1) * split_size <= x /\ x < c * split_size }]

(***************************************************************************)
(* blockRow: the ring multiplier.                                          *)
(*                                                                         *)
(* A tensor's content is the set of ranks whose original H-block it holds: *)
(* {k} is the block rank k started with, {} is torch.zeros.                *)
(***************************************************************************)
Ranks == 0 .. size - 1

\* line 39
blockRow_n_per_proc == adj_cols \div size

\* line 40: the column ranges of the adjacency partitions
blockRow_am_partitions == torch_split(adj_cols, blockRow_n_per_proc)

\* line 47
part_id(rank, iter) == (rank + iter) % size

\* line 54
dst(rank) == (rank + 1) % size

\* lines 55-57
src(rank) == IF rank - 1 < 0 THEN size - 1 ELSE rank - 1

FirstOpBothSend(rank) == "send"

\* lines 59-64: rank 0 sends and then receives, every other rank receives and
\* then sends
FirstOp(rank) == IF rank = 0 THEN "send" ELSE "recv"

SecondOp(rank) == IF FirstOp(rank) = "send" THEN "recv" ELSE "send"

\* the position after a completed send or recv
AfterOp(rank, op) == IF op = FirstOp(rank) THEN SecondOp(rank) ELSE "assign"

\* what the name `inputs` of a process reads
InputsContent(rank) == tensors[rank][inputs[rank]]

RingInit ==
    /\ size \in 1 .. MaxRing
    /\ adj_cols \in size .. MaxCols
    /\ pc = [r \in Ranks |-> "loop"]
    /\ i = [r \in Ranks |-> 0]
    /\ inputs = [r \in Ranks |-> "inputs"]
    /\ tensors = [r \in Ranks |-> [inputs |-> {r}, inputs_recv |-> {}]]   \* line 44
    /\ z_loc = [r \in Ranks |-> <<>>]                                     \* line 42
    /\ sent = [r \in Ranks |-> 0]
    /\ received = [r \in Ranks |-> 0]
    /\ layer = Idle /\ matched = Idle
    /\ grid_policy = Idle
    /\ SplitIdle /\ MainIdle /\ NormIdle

\* lines 47-52: accumulate the product of this iteration; the last iteration
\* skips the exchange and the loop ends (lines 68-69 return).
Multiply(rank) ==
    /\ pc[rank] = "loop"
    /\ z_loc' = [z_loc EXCEPT ![rank] =
                   Append(@, [part  |-> blockRow_am_partitions[part_id(rank, i[rank]) + 1],
                              block |-> InputsContent(rank)])]
    /\ IF i[rank] = size - 1
         THEN /\ i' = [i EXCEPT ![rank] = size]
              /\ pc' = [pc EXCEPT ![rank] = "done"]
         ELSE /\ i' = i
              /\ pc' = [pc EXCEPT ![rank] = FirstOp(rank)]
    /\ UNCHANGED <<size, adj_cols, inputs, tensors, sent, received, layer, matched, grid_policy, splitVars, mainVars, normVars>>

\* lines 60-64: a blocking send meets the matching blocking recv (rendezvous);
\* the receiver's inputs_recv object is overwritten with what the sender's
\* name `inputs` reads.
Transfer(s, d) ==
    /\ s # d
    /\ pc[s] = "send" /\ dst(s) = d
    /\ pc[d] = "recv" /\ src(d) = s
    /\ tensors' = [tensors EXCEPT ![d]["inputs_recv"] = InputsContent(s)]
    /\ sent' = [sent EXCEPT ![s] = @ + 1]
    /\ received' = [received EXCEPT ![d] = @ + 1]
    /\ pc' = [pc EXCEPT ![s] = AfterOp(s, "send"), ![d] = AfterOp(d, "recv")]
    /\ UNCHANGED <<size, adj_cols, i, inputs, z_loc, layer, matched, grid_policy, splitVars, mainVars, normVars>>

\* line 66: inputs = inputs_recv binds the name to the receive buffer itself
Assign(rank) ==
    /\ pc[rank] = "assign"
    /\ inputs' = [inputs EXCEPT ![rank] = "inputs_recv"]
    /\ i' = [i EXCEPT ![rank] = @ + 1]
    /\ pc' = [pc EXCEPT ![rank] = "loop"]
    /\ UNCHANGED <<size, adj_cols, tensors, z_loc, sent, received, layer, matched, grid_policy, splitVars, mainVars, normVars>>

RingNext ==
    \/ \E rank \in Ranks : Multiply(rank)
    \/ \E s \in Ranks : \E d \in Ranks : Transfer(s, d)
    \/ \E rank \in Ranks : Assign(rank)

RingSpec == RingInit /\ [][RingNext]_vars

(***************************************************************************)
(* Claims about blockRow.                                                  *)
(***************************************************************************)
AllDone == \A rank \in Ranks : pc[rank] = "done"

\* C1: the ring exchange never deadlocks under rendezvous send/recv: while
\* some process has not returned, some step is possible; a process that has
\* returned went through all `size` iterations with exactly size-1 sends and
\* size-1 receives, and no process communicates in its last iteration.
C1_RingDeadlockFree ==
    /\ AllDone \/ ENABLED RingNext
    /\ \A rank \in Ranks :
         /\ pc[rank] = "done" =>
              /\ i[rank] = size
              /\ Len(z_loc[rank]) = size
              /\ sent[rank] = size - 1
              /\ received[rank] = size - 1
         /\ pc[rank] \in {"send", "recv", "assign"} => i[rank] < size - 1
         /\ sent[rank] <= size - 1 /\ received[rank] <= size - 1

\* C1 witness: a ring of at least three processes has completed every exchange
C1_Witness == size >= 3 /\ AllDone /\ \A rank \in Ranks : sent[rank] = size - 1

\* the blocks a process has multiplied against, in iteration order
BlocksSeen(rank) == [k \in 1 .. Len(z_loc[rank]) |-> z_loc[rank][k].block]

\* C2: a process that has returned from blockRow multiplied against every
\* original H-block exactly once: the blocks of its `size` iterations are the
\* blocks of `size` different ranks.
C2_EveryBlockOnce ==
    \A rank \in Ranks :
        pc[rank] = "done" =>
            /\ \A k \in 1 .. size : \E owner \in Ranks : BlocksSeen(rank)[k] = {owner}
            /\ \A k, m \in 1 .. size : k # m => BlocksSeen(rank)[k] # BlocksSeen(rank)[m]

\* C3: at iteration i the adjacency partition (rank+i) mod size is multiplied
\* against the H-block rank (rank+i) mod size started with, and the partitions
\* a returned process has used cover every column of the adjacency.
C3_MatchingBlock ==
    \A rank \in Ranks :
        /\ \A k \in 1 .. Len(z_loc[rank]) :
               z_loc[rank][k].block = {part_id(rank, k - 1)}
        /\ pc[rank] = "done" =>
               UNION { z_loc[rank][k].part : k \in 1 .. size } = 0 .. adj_cols - 1

(***************************************************************************)
(* train, src/gcn_distr.py:104-106: two stacked GCNFunc.apply calls, each  *)
(* blockRow followed by the exchange of z with rank 0 (lines 84-94).       *)
(*                                                                         *)
(* A tensor's content is here the set of <<layer, rank>> of the H-blocks   *)
(* it holds: the z a rank returns from a layer is its H-block of the next  *)
(* one (line 106 passes outputs as inputs).                                *)
(***************************************************************************)
Layers == 2

\* lines 86-90: rank 0 receives, every other rank sends
GatherOp(rank) == IF rank = 0 THEN "gather_recv" ELSE "gather_send"

SendOps == {"send", "gather_send"}

RecvOps == {"recv", "gather_recv"}

\* the dst= of the send a process is blocked in (lines 60, 64; line 90)
SendTarget(rank) == IF pc[rank] = "send" THEN dst(rank) ELSE 0

\* the src= of the recv a process is blocked in (lines 61, 63; line 88)
RecvSource(rank) == IF pc[rank] = "recv" THEN src(rank) ELSE 1

\* the tensor a blocked sender sends: inputs in blockRow, z in forward
SentContent(rank) ==
    IF pc[rank] = "send" THEN InputsContent(rank) ELSE {<<layer[rank] + 1, rank>>}

\* the state of a process entering blockRow for a layer (lines 42-46)
TrainInit ==
    /\ size \in 1 .. MaxRing
    /\ adj_cols \in size .. MaxCols
    /\ pc = [r \in Ranks |-> "loop"]
    /\ i = [r \in Ranks |-> 0]
    /\ inputs = [r \in Ranks |-> "inputs"]
    /\ tensors = [r \in Ranks |-> [inputs |-> {<<1, r>>}, inputs_recv |-> {}]]
    /\ z_loc = [r \in Ranks |-> <<>>]
    /\ sent = [r \in Ranks |-> 0]
    /\ received = [r \in Ranks |-> 0]
    /\ layer = [r \in Ranks |-> 1]                                         \* line 105
    /\ matched = {}
    /\ grid_policy = Idle
    /\ SplitIdle /\ MainIdle /\ NormIdle

\* lines 68-69, 84-90: blockRow returns and the process enters the exchange of
\* z; rank 0 names src=1, and the recv fails where there is no rank 1
BlockRowReturn(rank) ==
    /\ pc[rank] = "done"
    /\ pc' = [pc EXCEPT ![rank] =
                 IF rank = 0 /\ 1 \notin Ranks THEN "raised" ELSE GatherOp(rank)]
    /\ UNCHANGED <<size, adj_cols, i, inputs, tensors, z_loc, sent, received, layer, matched, grid_policy, splitVars, mainVars, normVars>>

\* a blocking send meets a blocking recv that names it (the calls carry no
\* tag, so the pair of ranks is all that is matched): lines 60-64 and 88, 90
Exchange(s, d) ==
    /\ s # d
    /\ pc[s] \in SendOps /\ SendTarget(s) = d
    /\ pc[d] \in RecvOps /\ RecvSource(d) = s
    /\ matched' = matched \cup {<<pc[s], pc[d]>>}
    /\ tensors' = IF pc[d] = "recv"
                    THEN [tensors EXCEPT ![d]["inputs_recv"] = SentContent(s)]
                    ELSE tensors
    /\ sent' = IF pc[s] = "send" THEN [sent EXCEPT ![s] = @ + 1] ELSE sent
    /\ received' = IF pc[d] = "recv" THEN [received EXCEPT ![d] = @ + 1] ELSE received
    /\ pc' = [pc EXCEPT
                ![s] = IF pc[s] = "send" THEN AfterOp(s, "send") ELSE "forward_end",
                ![d] = IF pc[d] = "recv" THEN AfterOp(d, "recv") ELSE "forward_end"]
    /\ UNCHANGED <<size, adj_cols, i, inputs, z_loc, layer, grid_policy, splitVars, mainVars, normVars>>

\* lines 92-94 and 105-106: forward returns z; train passes it to the next
\* layer, or goes on after the last one
ForwardReturn(rank) ==
    /\ pc[rank] = "forward_end"
    /\ IF layer[rank] < Layers
         THEN /\ layer' = [layer EXCEPT ![rank] = @ + 1]
              /\ pc' = [pc EXCEPT ![rank] = "loop"]
              /\ i' = [i EXCEPT ![rank] = 0]
              /\ inputs' = [inputs EXCEPT ![rank] = "inputs"]
              /\ tensors' = [tensors EXCEPT ![rank] =
                                [inputs |-> {<<layer[rank] + 1, rank>>}, inputs_recv |-> {}]]
              /\ z_loc' = [z_loc EXCEPT ![rank] = <<>>]
              /\ sent' = [sent EXCEPT ![rank] = 0]
              /\ received' = [received EXCEPT ![rank] = 0]
         ELSE /\ pc' = [pc EXCEPT ![rank] = "returned"]
              /\ UNCHANGED <<layer, i, inputs, tensors, z_loc, sent, received>>
    /\ UNCHANGED <<size, adj_cols, matched, grid_policy, splitVars, mainVars, normVars>>

TrainNext ==
    \/ \E rank \in Ranks : Multiply(rank)
    \/ \E s \in Ranks : \E d \in Ranks : Exchange(s, d)
    \/ \E rank \in Ranks : Assign(rank)
    \/ \E rank \in Ranks : BlockRowReturn(rank)
    \/ \E rank \in Ranks : ForwardReturn(rank)

TrainSpec == TrainInit /\ [][TrainNext]_vars

(***************************************************************************)
(* Claims about train.                                                     *)
(***************************************************************************)
AllReturned == \A rank \in Ranks : pc[rank] = "returned"

\* C12: both layer calls of train return on every process: no call fails,
\* as long as a process has not returned some process can take a step, a send
\* of blockRow only ever meets a recv of blockRow and a send of z only ever
\* the recv of z, and a process that has returned is in the last layer.
C12_ForwardTerminates ==
    /\ \A rank \in Ranks : pc[rank] # "raised"
    /\ AllReturned \/ ENABLED TrainNext
    /\ matched \subseteq {<<"send", "recv">>, <<"gather_send", "gather_recv">>}
    /\ \A rank \in Ranks : pc[rank] = "returned" => layer[rank] = Layers

\* C12 for two processes
C12_ForwardTerminatesTwo == size = 2 => C12_ForwardTerminates

(***************************************************************************)
(* The process grid: cagnet.nn.functional.proc_row_size / proc_col_size.   *)
(* The grid is P_row x P_col with P_row * P_col = size where the policy    *)
(* factors the process count (P_row <= P_col, both as close to sqrt(size)  *)
(* as possible), and floor(sqrt(size)) squared where it takes the nearest  *)
(* square grid, which leaves ranks over when size is no square.            *)
(***************************************************************************)
GridPolicies == {"floor_sqrt", "factor"}

\* floor(sqrt(n))
ISqrt(n) == CHOOSE r \in 0 .. n : r * r <= n /\ (r + 1) * (r + 1) > n

\* the largest divisor of n that is at most sqrt(n)
NearSqrtDivisor(n) ==
    CHOOSE d \in 1 .. n :
        /\ n % d = 0 /\ d * d <= n
        /\ \A e \in 1 .. n : (n % e = 0 /\ e * e <= n) => e <= d

proc_row_size(sz) ==
    IF grid_policy = "floor_sqrt" THEN ISqrt(sz) ELSE NearSqrtDivisor(sz)

proc_col_size(sz) ==
    IF grid_policy = "floor_sqrt" THEN ISqrt(sz) ELSE sz \div NearSqrtDivisor(sz)

(***************************************************************************)
(* Edge lists: a 2 x E index tensor is the list of its columns <<row, col>>;*)
(* edge[dim + 1] is the index along dimension dim.                         *)
(***************************************************************************)
Nodes(node_count) == 0 .. node_count - 1

EdgeLists(node_count) ==
    UNION { [1 .. k -> Nodes(node_count) \X Nodes(node_count)] : k \in 0 .. MaxEdges }

(***************************************************************************)
(* split_coo, src/examples/gcn_2d.py:152-167                               *)
(***************************************************************************)
\* lines 156-158; range() raises ValueError when n_per_proc is 0
VtxIndicesNoTruncation(node_count, n_per_proc, sz) ==
    Append(range(0, node_count, n_per_proc), node_count)

vtx_indices_of(node_count, n_per_proc, sz) ==
    Append(Take(range(0, node_count, n_per_proc), proc_row_size(sz)), node_count)

AmPartInclusiveUpper(adj_matrix, dim, lo, hi) ==
    LET ge == SelectSeq(adj_matrix, LAMBDA e : e[dim + 1] >= lo)
        lt == SelectSeq(ge, LAMBDA e : e[dim + 1] <= hi)
    IN  [k \in 1 .. Len(lt) |-> [lt[k] EXCEPT ![dim + 1] = @ - lo]]

\* lines 162-164: the columns of adj_matrix whose index along dim is in
\* [lo, hi), copied (indexing with an index tensor copies), and the copy
\* rebased in place
am_part_of(adj_matrix, dim, lo, hi) ==
    LET ge == SelectSeq(adj_matrix, LAMBDA e : e[dim + 1] >= lo)
        lt == SelectSeq(ge, LAMBDA e : e[dim + 1] < hi)
    IN  [k \in 1 .. Len(lt) |-> [lt[k] EXCEPT ![dim + 1] = @ - lo]]

\* the whole call: what it returns, or that it raised, and the caller's
\* adj_matrix tensor after the call
split_coo(adj_matrix, node_count, n_per_proc, dim, sz) ==
    IF n_per_proc = 0
      THEN [raised |-> TRUE, am_partitions |-> <<>>, vtx_indices |-> <<>>,
            adj_matrix |-> adj_matrix]
      ELSE LET vtx_indices == vtx_indices_of(node_count, n_per_proc, sz)
           IN  [raised |-> FALSE,
                am_partitions |->
                    [p \in 1 .. Len(vtx_indices) - 1 |->
                        am_part_of(adj_matrix, dim, vtx_indices[p], vtx_indices[p + 1])],
                vtx_indices |-> vtx_indices,
                adj_matrix |-> adj_matrix]

SplitInit ==
    /\ grid_policy \in GridPolicies
    /\ \E node_count \in 1 .. MaxNodes :
         split_call \in [adj_matrix : EdgeLists(node_count),
                         node_count : {node_count},
                         n_per_proc : 0 .. node_count + 1,
                         dim        : {0, 1},
                         size       : 1 .. MaxSize]
    /\ split_ret = [called |-> FALSE]
    /\ RingIdle /\ MainIdle /\ NormIdle

SplitCoo ==
    /\ ~split_ret.called
    /\ split_ret' = [called |-> TRUE,
                     ret    |-> split_coo(split_call.adj_matrix, split_call.node_count,
                                          split_call.n_per_proc, split_call.dim,
                                          split_call.size)]
    /\ UNCHANGED <<ringVars, grid_policy, split_call, mainVars, normVars>>

SplitNext == SplitCoo

SplitSpec == SplitInit /\ [][SplitNext]_vars

(***************************************************************************)
(* Claims about split_coo.                                                 *)
(***************************************************************************)
\* how often an edge occurs in a list
Count(edge, lst) == Cardinality({ k \in 1 .. Len(lst) : lst[k] = edge })

\* a partition entry with the lower boundary added back along dim
Unrebase(edge, dim, lo) == [edge EXCEPT ![dim + 1] = @ + lo]

SplitReturned == split_ret.called /\ ~split_ret.ret.raised

\* C4: split_coo with n_per_proc > 0 returns; the boundaries cut [0, N) into
\* consecutive ranges; every entry of partition p, with the lower boundary of
\* p added back along dim, is an input edge whose index along dim lies in the
\* range of p; every input edge occurs in the partitions (boundaries added
\* back) exactly as often as in the input, and in the one partition of its
\* range; the input edge list is as it was.
C4_SplitRoundTrip ==
    (split_ret.called /\ split_call.n_per_proc > 0) =>
        LET r     == split_ret.ret
            v     == r.vtx_indices
            dim   == split_call.dim
            adj   == split_call.adj_matrix
            n     == split_call.node_count
            parts == 1 .. Len(r.am_partitions)
            Back(p) == [k \in 1 .. Len(r.am_partitions[p]) |->
                           Unrebase(r.am_partitions[p][k], dim, v[p])]
            Home(edge) == { p \in parts : v[p] <= edge[dim + 1] /\ edge[dim + 1] < v[p + 1] }
        IN  /\ ~r.raised
            /\ Len(r.am_partitions) = Len(v) - 1
            /\ \A edge \in Elems(adj) :
                 /\ Cardinality(Home(edge)) = 1
                 /\ \A p \in parts :
                      Count(edge, Back(p)) = IF p \in Home(edge) THEN Count(edge, adj) ELSE 0
            /\ \A p \in parts : \A k \in 1 .. Len(r.am_partitions[p]) :
                 /\ Back(p)[k] \in Elems(adj)
                 /\ r.am_partitions[p][k][2 - dim] = Back(p)[k][2 - dim]
                 /\ r.am_partitions[p][k][dim + 1] = Back(p)[k][dim + 1] - v[p]
                 /\ r.am_partitions[p][k][dim + 1] >= 0
            /\ r.adj_matrix = adj

\* C4 witness: a list of two edges was split into at least two partitions, the
\* last of them wider than n_per_proc, and an edge was rebased
C4_Witness ==
    /\ SplitReturned
    /\ Len(split_call.adj_matrix) = 2
    /\ Len(split_ret.ret.am_partitions) >= 2
    /\ split_call.node_count % split_call.n_per_proc # 0
    /\ \E p \in 1 .. Len(split_ret.ret.am_partitions) :
         /\ split_ret.ret.vtx_indices[p] > 0
         /\ Len(split_ret.ret.am_partitions[p]) > 0

\* the boundary property C5 speaks of
GoodBoundaries(v, node_count, n_blocks, width) ==
    /\ Len(v) = n_blocks + 1
    /\ v[1] = 0
    /\ v[Len(v)] = node_count
    /\ \A p \in 1 .. Len(v) - 1 : v[p] < v[p + 1]
    /\ \A p \in 1 .. Len(v) - 2 : v[p + 1] - v[p] = width
    /\ v[Len(v)] - v[Len(v) - 1] >= width

CalledAsTwodPartition ==
    /\ split_ret.called
    /\ split_call.n_per_proc = split_call.node_count \div proc_row_size(split_call.size)

\* C5 as stated: for all N >= 1 and P_row >= 1, split_coo called with
\* n_per_proc = N // P_row returns boundaries that are strictly increasing,
\* start at 0, end at N and have P_row + 1 entries.
C5_BoundariesAllN ==
    CalledAsTwodPartition =>
        /\ ~split_ret.ret.raised
        /\ GoodBoundaries(split_ret.ret.vtx_indices, split_call.node_count,
                          proc_row_size(split_call.size), split_call.n_per_proc)

\* C5 amended: the same for all N >= P_row >= 1.
C5_Boundaries ==
    (CalledAsTwodPartition /\ split_call.node_count >= proc_row_size(split_call.size)) =>
        /\ ~split_ret.ret.raised
        /\ GoodBoundaries(split_ret.ret.vtx_indices, split_call.node_count,
                          proc_row_size(split_call.size), split_call.n_per_proc)

\* C5 witness: N = 3 nodes over P_row = 2 blocks, the last one taking the rest
C5_Witness ==
    /\ CalledAsTwodPartition
    /\ split_call.node_count = 3
    /\ proc_row_size(split_call.size) = 2
    /\ split_ret.ret.vtx_indices = <<0, 1, 3>>

(***************************************************************************)
(* Numbers of the normalizers.  A scale factor is deg^(-1/2) of an edge    *)
(* count deg, infinite for deg = 0, or the 0 norm clamps it to.  A value   *)
(* is num / sqrt(rad), infinite, or NaN.                                   *)
(***************************************************************************)
Rsqrt(c) == [kind |-> "rsqrt", of |-> c]

Inf == [kind |-> "inf", of |-> 0]

Zero == [kind |-> "zero", of |-> 0]

Finite(num, rad) == [kind |-> "finite", num |-> num, rad |-> rad]

\* tensor.pow(-0.5) of a count
pow_minus_half(c) == IF c = 0 THEN Inf ELSE Rsqrt(c)

\* left * w * right for the weight w (a count) of an entry, IEEE 754
Times(left, w, right) ==
    LET anyInf  == left.kind = "inf" \/ right.kind = "inf"
        anyZero == left.kind = "zero" \/ right.kind = "zero" \/ w = 0
    IN  IF anyInf /\ anyZero THEN [kind |-> "nan", num |-> 0, rad |-> 1]
        ELSE IF anyInf THEN [kind |-> "inf", num |-> 0, rad |-> 1]
        ELSE IF anyZero THEN Finite(0, 1)
        ELSE Finite(w, left.of * right.of)

(***************************************************************************)
(* Sparse COO tensors: indices (a list of <<row, col>>), values, shape.    *)
(***************************************************************************)
\* lexicographic order of index pairs, the order coalesce() sorts by
IndexLess(a, b) == a[1] < b[1] \/ (a[1] = b[1] /\ a[2] < b[2])

RECURSIVE SortedIndices(_)
SortedIndices(S) ==
    IF S = {} THEN <<>>
    ELSE LET first == CHOOSE a \in S : \A b \in S \ {a} : IndexLess(a, b)
         IN  <<first>> \o SortedIndices(S \ {first})

\* torch.sparse_coo_tensor(indices, torch.ones(...), size=shape); it raises
\* when an index lies outside the shape
sparse_coo_tensor(indices, shape) ==
    [raised  |-> \E k \in 1 .. Len(indices) :
                    indices[k][1] >= shape[1] \/ indices[k][2] >= shape[2],
     indices |-> indices,
     values  |-> [k \in 1 .. Len(indices) |-> Finite(1, 1)],
     shape   |-> shape]

\* the sum of the values at one index; the values of an uncoalesced block are
\* the torch.ones of lines 196 and 203, so the sum is the number of duplicates
SumAt(t, index) == Cardinality({ k \in 1 .. Len(t.indices) : t.indices[k] = index })

\* tensor.coalesce(): indices sorted and unique, duplicates summed
coalesce(t) ==
    LET sorted == SortedIndices(Elems(t.indices))
    IN  [t EXCEPT !.indices = sorted,
                  !.values  = [k \in 1 .. Len(sorted) |-> Finite(SumAt(t, sorted[k]), 1)]]

(***************************************************************************)
(* scale_elements, src/examples/gcn_2d.py:113-148                          *)
(***************************************************************************)
\* the smallest and the largest entry of a non-empty list of numbers
MinOf(lst) == CHOOSE x \in Elems(lst) : \A y \in Elems(lst) : x <= y

MaxOf(lst) == CHOOSE x \in Elems(lst) : \A y \in Elems(lst) : x >= y

\* torch.histc(t, bins) with min = max = 0: the range is that of the data
\* (widened by one on both sides when it is a point), cut into `bins` equal
\* bins, the upper end belonging to the last bin
histc(lst, bins) ==
    LET lo0 == IF Len(lst) = 0 THEN 0 ELSE MinOf(lst)
        hi0 == IF Len(lst) = 0 THEN 0 ELSE MaxOf(lst)
        lo  == IF lo0 = hi0 THEN lo0 - 1 ELSE lo0
        hi  == IF lo0 = hi0 THEN hi0 + 1 ELSE hi0
        Bin(x) == LET pos == ((x - lo) * bins) \div (hi - lo)
                  IN  IF pos >= bins THEN bins - 1 ELSE pos
    IN  [b \in 0 .. bins - 1 |->
            Cardinality({ k \in 1 .. Len(lst) : Bin(lst[k]) = b })]

\* adj_matrix[0]
Row0(adj_matrix) == [k \in 1 .. Len(adj_matrix) |-> adj_matrix[k][1]]

\* lines 118-119
deg_of(adj_matrix, node_count) ==
    LET hist == histc(Row0(adj_matrix), node_count)
    IN  [v \in 0 .. node_count - 1 |-> pow_minus_half(hist[v])]

\* the whole call.  dleft and dright are diagonal, so each product scales
\* every entry of the coalesced block by the factor of its row, or column.
scale_elements(adj_matrix, adj_part, node_count, row_vtx, col_vtx, normalization) ==
    IF ~normalization
      THEN [raised |-> FALSE, adj_part |-> adj_part, deg |-> <<>>]      \* lines 114-115
      ELSE LET part    == coalesce(adj_part)                            \* line 117
               deg     == deg_of(adj_matrix, node_count)
               row_len == part.shape[1]
               col_len == part.shape[2]
           IN  IF row_vtx + row_len > node_count \/ col_vtx + col_len > node_count
                 \* the slice of deg is shorter than the diagonal: lines 124-134 raise
                 THEN [raised |-> TRUE, adj_part |-> adj_part, deg |-> deg]
                 ELSE [raised |-> FALSE,
                       adj_part |->
                           [part EXCEPT !.values =
                               [k \in 1 .. Len(part.indices) |->
                                   Times(deg[row_vtx + part.indices[k][1]],
                                         part.values[k].num,
                                         deg[col_vtx + part.indices[k][2]])]],
                       deg |-> deg]

(***************************************************************************)
(* norm, src/gcn_distr.py:21-36                                            *)
(***************************************************************************)
\* torch_geometric.utils.add_remaining_self_loops: the edges that are no
\* self-loops, then one self-loop for every node
add_remaining_self_loops(edge_index, num_nodes) ==
    SelectSeq(edge_index, LAMBDA e : e[1] # e[2])
        \o [v \in 1 .. num_nodes |-> <<v - 1, v - 1>>]

\* scatter_add(edge_weight, row, dim_size=num_nodes) of unit weights
scatter_add_ones(edge_index, num_nodes) ==
    [v \in 0 .. num_nodes - 1 |->
        Cardinality({ k \in 1 .. Len(edge_index) : edge_index[k][1] = v })]

\* the whole call with edge_weight = None, improved = False
norm(edge_index, num_nodes) ==
    LET looped == add_remaining_self_loops(edge_index, num_nodes)          \* lines 28-29
        deg    == scatter_add_ones(looped, num_nodes)                      \* line 32
        deg_inv_sqrt ==                                                    \* lines 33-34
            [v \in 0 .. num_nodes - 1 |->
                IF pow_minus_half(deg[v]) = Inf THEN Zero ELSE pow_minus_half(deg[v])]
    IN  [edge_index   |-> looped,
         deg_inv_sqrt |-> deg_inv_sqrt,
         edge_weight  |-> [k \in 1 .. Len(looped) |->
                              Times(deg_inv_sqrt[looped[k][1]], 1,
                                    deg_inv_sqrt[looped[k][2]])]]

\* the 3-node ring (0,1), (1,2), (2,0) with the self-loops main adds to it
\* (gcn_2d.py:309-311)
RingWithSelfLoops ==
    <<<<0, 1>>, <<1, 2>>, <<2, 0>>, <<0, 0>>, <<1, 1>>, <<2, 2>>>>

\* the edge lists the normalizers are applied to
NormEdgeLists(node_count) ==
    (EdgeLists(node_count) \ {<<>>})
        \cup (IF node_count = 3 THEN {RingWithSelfLoops} ELSE {})

\* the part of an edge list in the block of h rows from r0 and w columns from
\* c0, rebased to the block (split_coo along columns, then along rows)
BlockOf(edge_index, r0, h, c0, w) ==
    am_part_of(am_part_of(edge_index, 1, c0, c0 + w), 0, r0, r0 + h)

NormInit ==
    /\ \E node_count \in 1 .. MaxNodes :
         norm_call \in [edge_index    : NormEdgeLists(node_count),
                        node_count    : {node_count},
                        normalization : BOOLEAN]
    /\ norm_ret = [called |-> FALSE]
    /\ scale_ret = [called |-> FALSE]
    /\ grid_policy = Idle
    /\ RingIdle /\ SplitIdle /\ MainIdle

\* the 1D path: norm(edge_index, num_nodes)
Norm ==
    /\ ~norm_ret.called
    /\ norm_ret' = [called |-> TRUE,
                    ret    |-> norm(norm_call.edge_index, norm_call.node_count)]
    /\ UNCHANGED <<ringVars, grid_policy, splitVars, mainVars, norm_call, scale_ret>>

\* the 2D path on one block of the adjacency: h rows from r0, w columns from
\* c0, built as lines 196 and 203 build it
ScaleElements ==
    /\ ~scale_ret.called
    /\ \E r0, c0 \in Nodes(norm_call.node_count) :
         \E h \in 1 .. norm_call.node_count - r0, w \in 1 .. norm_call.node_count - c0 :
           LET adj_part == sparse_coo_tensor(
                               BlockOf(norm_call.edge_index, r0, h, c0, w), <<h, w>>)
           IN  scale_ret' =
                 [called   |-> TRUE,
                  row_vtx  |-> r0,
                  col_vtx  |-> c0,
                  adj_part |-> adj_part,
                  ret      |-> scale_elements(norm_call.edge_index, adj_part,
                                              norm_call.node_count, r0, c0,
                                              norm_call.normalization)]
    /\ UNCHANGED <<ringVars, grid_policy, splitVars, mainVars, norm_call, norm_ret>>

NormNext == Norm \/ ScaleElements

NormSpec == NormInit /\ [][NormNext]_vars

(***************************************************************************)
(* Claims about the normalizers.                                           *)
(***************************************************************************)
\* the number of edges of a list whose source is v
SourceDegree(edge_list, v) ==
    Cardinality({ k \in 1 .. Len(edge_list) : edge_list[k][1] = v })

AllFinite(values) == \A k \in 1 .. Len(values) : values[k].kind = "finite"

\* C10: a vertex that is the source of no edge of the list the degrees are
\* counted over has scale factor 0 in norm and in scale_elements, and no
\* normalized value is infinite or NaN.
C10_DegreeZeroClamped ==
    /\ norm_ret.called =>
         /\ \A v \in Nodes(norm_call.node_count) :
              SourceDegree(norm_ret.ret.edge_index, v) = 0 =>
                  norm_ret.ret.deg_inv_sqrt[v] = Zero
         /\ AllFinite(norm_ret.ret.edge_weight)
    /\ (scale_ret.called /\ norm_call.normalization) =>
         /\ ~scale_ret.ret.raised
         /\ \A v \in Nodes(norm_call.node_count) :
              SourceDegree(norm_call.edge_index, v) = 0 => scale_ret.ret.deg[v] = Zero
         /\ AllFinite(scale_ret.ret.adj_part.values)

\* the number of entries of a block at a local position
Weight(adj_part, index) ==
    Cardinality({ k \in 1 .. Len(adj_part.indices) : adj_part.indices[k] = index })

\* the value the normalized block is to hold at a local position of a block
\* with offsets r0, c0, for the degrees of a global edge list
ScaledValue(edge_list, adj_part, r0, c0, index) ==
    Times(pow_minus_half(SourceDegree(edge_list, r0 + index[1])),
          Weight(adj_part, index),
          pow_minus_half(SourceDegree(edge_list, c0 + index[2])))

\* C11: scale_elements returns; with normalization on the output has the
\* positions of the block B it was given, deg[v] is (number of edges of the
\* global list with source v)^(-1/2) for every vertex v that is a source, and
\* the value at a local (i, j) whose row and column vertices are sources is
\* deg[r0+i] * B[i,j] * deg[c0+j]; every self-loop entry of the 3-node ring
\* with self-loops is 0.5; with normalization off the block is returned
\* unchanged.
C11_ScaledBlock ==
    scale_ret.called =>
        LET ret == scale_ret.ret
            B   == scale_ret.adj_part
            r0  == scale_ret.row_vtx
            c0  == scale_ret.col_vtx
            edge_list == norm_call.edge_index
            IsSource(v) == SourceDegree(edge_list, v) > 0
        IN  /\ ~ret.raised
            /\ ~norm_call.normalization => ret.adj_part = B
            /\ norm_call.normalization =>
                 /\ Elems(ret.adj_part.indices) = Elems(B.indices)
                 /\ Len(ret.adj_part.indices) = Cardinality(Elems(B.indices))
                 /\ ret.adj_part.shape = B.shape
                 /\ \A v \in Nodes(norm_call.node_count) :
                      IsSource(v) =>
                          ret.deg[v] = pow_minus_half(SourceDegree(edge_list, v))
                 /\ \A k \in 1 .. Len(ret.adj_part.indices) :
                      LET index == ret.adj_part.indices[k]
                      IN  (IsSource(r0 + index[1]) /\ IsSource(c0 + index[2])) =>
                              ret.adj_part.values[k]
                                  = ScaledValue(edge_list, B, r0, c0, index)
                 /\ edge_list = RingWithSelfLoops =>
                      \A k \in 1 .. Len(ret.adj_part.indices) :
                          LET index == ret.adj_part.indices[k]
                          IN  r0 + index[1] = c0 + index[2] =>
                                  ret.adj_part.values[k] = Finite(1, 4)

\* C11 where vertex 0 and vertex N-1 are sources of the global edge list
C11_ScaledBlockEndsAreSources ==
    (/\ SourceDegree(norm_call.edge_index, 0) > 0
     /\ SourceDegree(norm_call.edge_index, norm_call.node_count - 1) > 0)
        => C11_ScaledBlock

(***************************************************************************)
(* get_proc_groups, src/examples/gcn_2d.py:66-110                          *)
(* A group is the list of ranks given to dist.new_group; None is <<>>.     *)
(***************************************************************************)
None == <<>>

\* lines 70, 85: int(rank / proc_col)
rank_row_of(rank, sz) == rank \div proc_col_size(sz)

\* lines 71, 86
rank_col_of(rank, sz) == rank % proc_col_size(sz)

\* lines 76-77
row_groups_of(sz) ==
    [g \in 1 .. proc_row_size(sz) |->
        range((g - 1) * proc_col_size(sz),
              (g - 1) * proc_col_size(sz) + proc_col_size(sz), 1)]

\* lines 80-81
col_groups_of(sz) ==
    [g \in 1 .. proc_col_size(sz) |-> range(g - 1, sz, proc_row_size(sz))]

OutsideGridStrict(rank, sz) ==
    \/ rank_row_of(rank, sz) > proc_row_size(sz)
    \/ rank_col_of(rank, sz) > proc_col_size(sz)

\* line 89
OutsideGrid(rank, sz) ==
    \/ rank_row_of(rank, sz) >= proc_row_size(sz)
    \/ rank_col_of(rank, sz) >= proc_col_size(sz)

\* lines 94-103: transpose_groups[a][b], 1-based here
transpose_groups_of(sz) ==
    [a \in 1 .. proc_row_size(sz) |->
        [b \in 1 .. proc_col_size(sz) |->
            LET local_rank   == (a - 1) * proc_col_size(sz) + (b - 1)
                local_rank_t == (b - 1) * proc_row_size(sz) + (a - 1)
            IN  IF local_rank < local_rank_t
                  THEN <<local_rank, local_rank_t>>
                  ELSE None]]

\* the lists of a list of lists, in order
RECURSIVE Flatten(_)
Flatten(rows) ==
    IF rows = <<>> THEN <<>> ELSE Head(rows) \o Flatten(Tail(rows))

\* the dist.new_group calls of one process, in the order it makes them
new_group_calls(rank, sz) ==
    row_groups_of(sz) \o col_groups_of(sz)
        \o (IF OutsideGrid(rank, sz) THEN <<>>
            ELSE SelectSeq(Flatten(transpose_groups_of(sz)), LAMBDA g : g # None))

\* the whole call: None (line 90), the tuple of line 110, or the IndexError
\* of lines 106, 108 when the subscripts leave transpose_groups
get_proc_groups(rank, sz) ==
    LET rank_row == rank_row_of(rank, sz)
        rank_col == rank_col_of(rank, sz)
        rank_t   == rank_col * proc_row_size(sz) + rank_row                \* line 87
        tgs      == transpose_groups_of(sz)
        a        == IF rank < rank_t THEN rank_row ELSE rank_col           \* lines 105-108
        b        == IF rank < rank_t THEN rank_col ELSE rank_row
        nothing  == [kind |-> "None", row_groups |-> <<>>, col_groups |-> <<>>,
                     transpose_group |-> None, transpose_groups |-> <<>>]
    IN  IF OutsideGrid(rank, sz) THEN nothing
        ELSE IF a >= Len(tgs) \/ b >= Len(tgs[a + 1])
          THEN [nothing EXCEPT !.kind = "IndexError", !.transpose_groups = tgs]
          ELSE [kind |-> "tuple",
                row_groups |-> row_groups_of(sz),
                col_groups |-> col_groups_of(sz),
                transpose_group |-> tgs[a + 1][b + 1],
                transpose_groups |-> tgs]

(***************************************************************************)
(* twod_partition, src/examples/gcn_2d.py:169-235                          *)
(***************************************************************************)
Raised(error) ==
    [raised |-> TRUE, error |-> error,
     adj_matrix_loc |-> [indices |-> <<>>, values |-> <<>>, shape |-> <<0, 0>>],
     adj_loc_rows |-> {}, inputs_loc_rows |-> {}]

\* lines 210-218, 225, 231: the rows of the feature matrix in inputs_loc
inputs_loc_rows_of(node_count, rank_row, sz) ==
    LET inputs_per_row == node_count \div proc_row_size(sz)
    IN  { x \in 0 .. node_count - 1 :
            /\ x >= rank_row * inputs_per_row
            /\ rank_row # proc_row_size(sz) - 1 => x < (rank_row + 1) * inputs_per_row }

\* lines 192, 196-197, 203-204, 230: the vertices of the rows of block rank_row
\* of the row split: as many as the tensor has rows, from the block's boundary
adj_loc_rows_of(adj_part, vtx_indices, rank_row) ==
    { vtx_indices[rank_row + 1] + x : x \in 0 .. adj_part.shape[1] - 1 }

\* lines 193-208: block i (from 0) of the row split as a normalized tensor
am_pbyp_block(adj_matrix, indices, block, node_count, vtx_indices, rank_col, normalize, sz) ==
    LET n_per_proc == node_count \div proc_row_size(sz)
        proc_node_count == vtx_indices[rank_col + 2] - vtx_indices[rank_col + 1]
        rows == IF block = proc_row_size(sz) - 1
                  THEN vtx_indices[block + 2] - vtx_indices[block + 1]
                  ELSE n_per_proc
        t    == sparse_coo_tensor(indices, <<rows, proc_node_count>>)
    IN  IF t.raised THEN [raised |-> TRUE, adj_part |-> t, deg |-> <<>>]
        ELSE scale_elements(adj_matrix, t, node_count, vtx_indices[block + 1],
                            vtx_indices[rank_col + 1], normalize)

\* the whole call: the local blocks, or the exception that ends it
twod_partition(rank, sz, node_count, adj_matrix, normalize) ==
    LET n_per_proc == node_count \div proc_row_size(sz)                    \* line 177
        rank_row   == rank_row_of(rank, sz)
        rank_col   == rank_col_of(rank, sz)
        cols       == split_coo(adj_matrix, node_count, n_per_proc, 1, sz) \* line 189
    IN  IF cols.raised THEN Raised("ValueError")
        ELSE IF rank_col + 2 > Len(cols.vtx_indices) THEN Raised("IndexError")  \* line 191
        ELSE
          LET rows == split_coo(cols.am_partitions[rank_col + 1], node_count,
                                n_per_proc, 0, sz)                         \* line 192
              am_pbyp == [b \in 1 .. Len(rows.am_partitions) |->
                            am_pbyp_block(adj_matrix, rows.am_partitions[b], b - 1,
                                          node_count, cols.vtx_indices,
                                          rank_col, normalize, sz)]
          IN  IF \E b \in 1 .. Len(am_pbyp) : am_pbyp[b].raised
                THEN Raised("RuntimeError")
              ELSE IF rank_row >= Len(am_pbyp) THEN Raised("IndexError")   \* line 230
              ELSE [raised |-> FALSE, error |-> "",
                    adj_matrix_loc  |-> am_pbyp[rank_row + 1].adj_part,
                    adj_loc_rows    |-> adj_loc_rows_of(am_pbyp[rank_row + 1].adj_part,
                                                        rows.vtx_indices, rank_row),
                    inputs_loc_rows |-> inputs_loc_rows_of(node_count, rank_row, sz)]

(***************************************************************************)
(* main, src/examples/gcn_2d.py:272-348: one process of the job.           *)
(***************************************************************************)
\* the dataset's edge_index: a coalesced edge list (sorted, no duplicates)
CoalescedEdgeLists(node_count) ==
    { SortedIndices(S) :
        S \in { T \in SUBSET (Nodes(node_count) \X Nodes(node_count)) :
                  Cardinality(T) <= MaxEdges } }

MainInit ==
    /\ grid_policy \in GridPolicies
    /\ \E sz \in 1 .. MaxSize, node_count \in 1 .. MaxNodes :
         \E edge_index \in CoalescedEdgeLists(node_count) :
           main_proc \in [rank       : 0 .. sz - 1,
                          size       : {sz},
                          node_count : {node_count},
                          edge_index : {edge_index},
                          adj_matrix : {edge_index},                       \* line 292
                          normalize  : BOOLEAN]
    /\ main_pc = "get_proc_groups"
    /\ main_err = ""
    /\ main_groups = [called |-> FALSE]
    /\ main_loc = [called |-> FALSE]
    /\ main_slices = [called |-> FALSE]
    /\ job_size = Idle /\ group_pc = Idle /\ calls_made = Idle
    /\ RingIdle /\ SplitIdle /\ NormIdle

\* lines 309-314: the self-loops, then get_proc_groups and the unpacking of
\* what it returned; None cannot be unpacked (TypeError)
MainGetProcGroups ==
    /\ main_pc = "get_proc_groups"
    /\ LET ret == get_proc_groups(main_proc.rank, main_proc.size)
       IN  /\ main_groups' = [called |-> TRUE, ret |-> ret]
           /\ main_pc' = IF ret.kind = "tuple" THEN "twod_partition" ELSE "raised"
           /\ main_err' = CASE ret.kind = "tuple" -> ""
                            [] ret.kind = "None" -> "TypeError"
                            [] OTHER -> ret.kind
    /\ main_proc' = [main_proc EXCEPT !.adj_matrix =
                        IF main_proc.normalize
                          THEN add_remaining_self_loops(@, main_proc.node_count)
                          ELSE @]
    /\ UNCHANGED <<ringVars, grid_policy, splitVars, main_loc, main_slices, job_size, group_pc, calls_made, normVars>>

\* lines 316-322
MainTwodPartition ==
    /\ main_pc = "twod_partition"
    /\ LET ret == twod_partition(main_proc.rank, main_proc.size, main_proc.node_count,
                                 main_proc.adj_matrix, main_proc.normalize)
       IN  /\ main_loc' = [called |-> TRUE, ret |-> ret]
           /\ main_pc' = IF ret.raised THEN "raised" ELSE "model"
           /\ main_err' = ret.error
    /\ UNCHANGED <<ringVars, grid_policy, splitVars, main_proc, main_groups, main_slices, job_size, group_pc, calls_made, normVars>>

\* lines 324-348: the model and the optimizer, then the labels and the train
\* mask of this process: chunk rank_row of torch.split by n_per_proc
MainSlices ==
    /\ main_pc = "model"
    /\ LET n_per_proc == main_proc.node_count \div proc_row_size(main_proc.size)
           rank_row   == rank_row_of(main_proc.rank, main_proc.size)       \* line 318
           chunks     == torch_split(main_proc.node_count, n_per_proc)
       IN  main_slices' = [called          |-> TRUE,
                           rank_train_mask |-> chunks[rank_row + 1],       \* line 347
                           labels_rank     |-> chunks[rank_row + 1]]       \* line 348
    /\ main_pc' = "train"
    /\ UNCHANGED <<ringVars, grid_policy, splitVars, main_proc, main_err, main_groups, main_loc, job_size, group_pc, calls_made, normVars>>

MainNext == MainGetProcGroups \/ MainTwodPartition \/ MainSlices

MainSpec == MainInit /\ [][MainNext]_vars

(***************************************************************************)
(* get_proc_groups on every process of the job.  dist.new_group is a       *)
(* collective of the whole job: a call returns once every process has      *)
(* entered new_group with the same ranks.                                  *)
(***************************************************************************)
JobRanks == 0 .. job_size - 1

\* the ranks= of the call a process is in, or is about to make
NextGroup(rank) == new_group_calls(rank, job_size)[calls_made[rank] + 1]

GroupInit ==
    /\ grid_policy \in GridPolicies
    /\ job_size \in 1 .. MaxSize
    /\ group_pc = [r \in JobRanks |-> "ready"]
    /\ calls_made = [r \in JobRanks |-> 0]
    /\ main_proc = Idle /\ main_pc = Idle /\ main_err = Idle
    /\ main_groups = Idle /\ main_loc = Idle /\ main_slices = Idle
    /\ RingIdle /\ SplitIdle /\ NormIdle

\* lines 77, 81, 100: the process enters its next dist.new_group call
EnterNewGroup(rank) ==
    /\ group_pc[rank] = "ready"
    /\ calls_made[rank] < Len(new_group_calls(rank, job_size))
    /\ group_pc' = [group_pc EXCEPT ![rank] = "new_group"]
    /\ UNCHANGED <<ringVars, grid_policy, splitVars, main_proc, main_pc, main_err, main_groups, main_loc, main_slices, job_size, calls_made, normVars>>

\* every process of the job is in dist.new_group with the same ranks: the
\* group is created and the call returns on all of them
NewGroupCompletes ==
    /\ \A rank \in JobRanks : group_pc[rank] = "new_group"
    /\ \A r1, r2 \in JobRanks : NextGroup(r1) = NextGroup(r2)
    /\ group_pc' = [rank \in JobRanks |-> "ready"]
    /\ calls_made' = [rank \in JobRanks |-> calls_made[rank] + 1]
    /\ UNCHANGED <<ringVars, grid_policy, splitVars, main_proc, main_pc, main_err, main_groups, main_loc, main_slices, job_size, normVars>>

\* lines 90, 105-110: the process has made its calls and leaves
\* get_proc_groups, with None, the tuple, or the IndexError
GetProcGroupsReturns(rank) ==
    /\ group_pc[rank] = "ready"
    /\ calls_made[rank] = Len(new_group_calls(rank, job_size))
    /\ group_pc' = [group_pc EXCEPT ![rank] = get_proc_groups(rank, job_size).kind]
    /\ UNCHANGED <<ringVars, grid_policy, splitVars, main_proc, main_pc, main_err, main_groups, main_loc, main_slices, job_size, calls_made, normVars>>

GroupNext ==
    \/ \E rank \in JobRanks : EnterNewGroup(rank)
    \/ NewGroupCompletes
    \/ \E rank \in JobRanks : GetProcGroupsReturns(rank)

GroupSpec == GroupInit /\ [][GroupNext]_vars

(***************************************************************************)
(* Claims about the process topology and the 2D partition.                 *)
(***************************************************************************)
P_row == proc_row_size(main_proc.size)

P_col == proc_col_size(main_proc.size)

\* the rank at grid position (r, c), row-major
GridRank(r, c) == r * P_col + c

\* the ranks that have a position in the grid
InGrid(rank) == rank < P_row * P_col

GridRow(rank) == rank \div P_col

GridCol(rank) == rank % P_col

\* the boundaries of an n_blocks-way split of [0, N), the last block taking
\* the remainder
Boundaries(node_count, n_blocks) ==
    [p \in 1 .. n_blocks + 1 |->
        IF p = n_blocks + 1 THEN node_count ELSE (p - 1) * (node_count \div n_blocks)]

\* the edges of the global adjacency in block (r, c) of the grid, rebased
BlockEdges(adj_matrix, node_count, r, c) ==
    LET rb == Boundaries(node_count, P_row)
        cb == Boundaries(node_count, P_col)
    IN  { <<e[1] - rb[r + 1], e[2] - cb[c + 1]>> :
            e \in { f \in Elems(adj_matrix) :
                      /\ rb[r + 1] <= f[1] /\ f[1] < rb[r + 2]
                      /\ cb[c + 1] <= f[2] /\ f[2] < cb[c + 2] } }

\* the edges of the block twod_partition hands to a rank, as global edges
GlobalEdgesOf(rank) ==
    LET ret == twod_partition(rank, main_proc.size, main_proc.node_count,
                              main_proc.adj_matrix, main_proc.normalize)
        rb  == Boundaries(main_proc.node_count, P_row)
        cb  == Boundaries(main_proc.node_count, P_col)
    IN  IF ret.raised THEN {}
        ELSE { <<e[1] + rb[GridRow(rank) + 1], e[2] + cb[GridCol(rank) + 1]>> :
                 e \in Elems(ret.adj_matrix_loc.indices) }

\* C6: for every grid and every rank in it (with enough nodes for every
\* block), twod_partition returns, the local adjacency block holds exactly
\* the edges of block (rank_row, rank_col) of a P_row x P_col split, rebased,
\* and the blocks of the ranks in the grid are disjoint and hold every edge.
C6_LocalBlock ==
    (/\ main_loc.called
     /\ main_proc.node_count >= P_row /\ main_proc.node_count >= P_col) =>
        /\ ~main_loc.ret.raised
        /\ Elems(main_loc.ret.adj_matrix_loc.indices)
             = BlockEdges(main_proc.adj_matrix, main_proc.node_count,
                          GridRow(main_proc.rank), GridCol(main_proc.rank))
        /\ \A r1, r2 \in 0 .. P_row * P_col - 1 :
             r1 # r2 => GlobalEdgesOf(r1) \cap GlobalEdgesOf(r2) = {}
        /\ UNION { GlobalEdgesOf(r) : r \in 0 .. P_row * P_col - 1 }
             = Elems(main_proc.adj_matrix)

\* C6 on square grids
C6_LocalBlockSquare == P_row = P_col => C6_LocalBlock

\* C7: a process in the grid gets an answer from get_proc_groups; for every
\* pair of grid positions (a, b), (b, a) with a < b exactly one transpose group
\* was created with the members rank(a, b), rank(b, a); a process off the
\* diagonal is handed the group of its own rank and its transpose peer, a
\* process on the diagonal none.
C7_TransposeGroups ==
    (main_groups.called /\ InGrid(main_proc.rank)) =>
        LET ret     == main_groups.ret
            created == SelectSeq(Flatten(ret.transpose_groups), LAMBDA g : g # None)
            row     == GridRow(main_proc.rank)
            col     == GridCol(main_proc.rank)
        IN  /\ ret.kind = "tuple"
            /\ \A a, b \in 0 .. P_row - 1 :
                 (a < b /\ b < P_col) =>
                     Cardinality({ k \in 1 .. Len(created) :
                         Elems(created[k]) = {GridRank(a, b), GridRank(b, a)} }) = 1
            /\ row # col =>
                 Elems(ret.transpose_group) = {main_proc.rank, GridRank(col, row)}
            /\ row = col => ret.transpose_group = None

\* C7 on square grids
C7_TransposeGroupsSquare == P_row = P_col => C7_TransposeGroups

\* C8: when size = P_row * P_col, every rank is in exactly one row group,
\* the one at index rank div P_col, and in exactly one column group, the one
\* at index rank mod P_col; a row group has P_col members of one grid row, a
\* column group P_row members of one grid column.
C8_RowColGroups ==
    (main_groups.called /\ main_proc.size = P_row * P_col) =>
        LET rows == row_groups_of(main_proc.size)
            cols == col_groups_of(main_proc.size)
        IN  /\ main_groups.ret.kind = "tuple" =>
                 main_groups.ret.row_groups = rows /\ main_groups.ret.col_groups = cols
            /\ Len(rows) = P_row /\ Len(cols) = P_col
            /\ \A rank \in 0 .. main_proc.size - 1 :
                 /\ { g \in 1 .. Len(rows) : rank \in Elems(rows[g]) } = {GridRow(rank) + 1}
                 /\ { g \in 1 .. Len(cols) : rank \in Elems(cols[g]) } = {GridCol(rank) + 1}
            /\ \A g \in 1 .. Len(rows) :
                 /\ Cardinality(Elems(rows[g])) = P_col
                 /\ \A rank \in Elems(rows[g]) : GridRow(rank) = g - 1
            /\ \A g \in 1 .. Len(cols) :
                 /\ Cardinality(Elems(cols[g])) = P_row
                 /\ \A rank \in Elems(cols[g]) : GridCol(rank) = g - 1

\* C8 on square grids
C8_RowColGroupsSquare == P_row = P_col => C8_RowColGroups

\* C9: a process whose rank has no position in the grid gets None from
\* get_proc_groups (no row, column or transpose group), fails to unpack it at
\* line 314, and never calls twod_partition or goes on from there.
C9_LeftoverRankStops ==
    ~InGrid(main_proc.rank) =>
        /\ main_pc \in {"get_proc_groups", "raised"}
        /\ ~main_loc.called
        /\ main_groups.called =>
             /\ main_groups.ret.kind = "None"
             /\ main_groups.ret.row_groups = <<>>
             /\ main_groups.ret.col_groups = <<>>
             /\ main_groups.ret.transpose_group = None
             /\ main_pc = "raised"
             /\ main_err = "TypeError"

\* C9 witness: a leftover rank has called get_proc_groups and stopped
C9_Witness ==
    /\ ~InGrid(main_proc.rank)
    /\ main_groups.called
    /\ main_pc = "raised"

\* the processes that have left get_proc_groups
GroupsLeft == { rank \in JobRanks : group_pc[rank] \in {"None", "tuple", "IndexError"} }

\* C13: all processes of the job make the same dist.new_group calls in the
\* same order (row groups, column groups, transpose groups), every call names
\* only ranks of the job, a process in a new_group call is in a call every
\* other process makes at the same position of its sequence, and as long as a
\* process has not left get_proc_groups some process can take a step.
C13_GroupsConsistent ==
    /\ \A r1, r2 \in JobRanks :
         new_group_calls(r1, job_size) = new_group_calls(r2, job_size)
    /\ \A rank \in JobRanks :
         \A k \in 1 .. Len(new_group_calls(rank, job_size)) :
             Elems(new_group_calls(rank, job_size)[k]) \subseteq JobRanks
    /\ \A rank, other \in JobRanks :
         group_pc[rank] = "new_group" =>
             /\ calls_made[rank] < Len(new_group_calls(other, job_size))
             /\ new_group_calls(other, job_size)[calls_made[rank] + 1] = NextGroup(rank)
    /\ GroupsLeft = JobRanks \/ ENABLED GroupNext

\* C13 where every rank has a position in the grid
C13_GroupsConsistentFullGrid ==
    job_size = proc_row_size(job_size) * proc_col_size(job_size) => C13_GroupsConsistent

\* the vertices of row block r of the grid: [boundary[r], boundary[r+1])
RowBlock(node_count, r) ==
    LET rb == Boundaries(node_count, P_row)
    IN  { v \in Nodes(node_count) : rb[r + 1] <= v /\ v < rb[r + 2] }

\* C14: on a process that has cut its label and train-mask slices, the rows
\* of the local adjacency block, the rows of the local feature block, the
\* label slice and the train-mask slice all cover the vertices
\* [boundary[rank_row], boundary[rank_row+1]) of its row block, the last row
\* block taking the remainder of N / P_row.
C14_PartitionConsistent ==
    main_slices.called =>
        LET block == RowBlock(main_proc.node_count, GridRow(main_proc.rank))
        IN  /\ main_loc.ret.adj_loc_rows = block
            /\ main_loc.ret.inputs_loc_rows = block
            /\ main_slices.labels_rank = block
            /\ main_slices.rank_train_mask = block

\* C14 where P_row divides N
C14_PartitionConsistentDivisible ==
    main_proc.node_count % P_row = 0 => C14_PartitionConsistent

\* C14 for the adjacency and the feature rows alone
C14_AdjacencyAndFeatureRows ==
    main_slices.called =>
        /\ main_loc.ret.adj_loc_rows
             = RowBlock(main_proc.node_count, GridRow(main_proc.rank))
        /\ main_loc.ret.inputs_loc_rows
             = RowBlock(main_proc.node_count, GridRow(main_proc.rank))

=============================================================================
